---- MODULE Spec2Model ----
(***************************************************************************)
(* Model of Solutions/lab2_apache_log_student.py: the Apache Common Log    *)
(* Format parser (parse_apache_time, parseApacheLogLine, the two values of *)
(* APACHE_ACCESS_LOG_PATTERN), parseLogs() and the aggregation cells of    *)
(* the notebook.                                                           *)
(*                                                                         *)
(* A string is a sequence of one-character strings, so that slicing,       *)
(* character classes and int() are computed the way Python computes them.  *)
(* An RDD is the sequence of its elements in collect() order.              *)
(***************************************************************************)
EXTENDS Integers, Sequences, FiniteSets, TLC

(***************************************************************************)
(* Bounds                                                                  *)
(***************************************************************************)
\* longest log file (number of lines) of the aggregation specification
MaxLines == 3
\* largest k handed to takeOrdered
MaxK == 3

(***************************************************************************)
(* Characters and character classes of Python 2's re (no re.UNICODE flag)  *)
(***************************************************************************)
Digits == {"0", "1", "2", "3", "4", "5", "6", "7", "8", "9"}

Letters ==
  {"a", "b", "c", "d", "e", "f", "g", "h", "i", "j", "k", "l", "m",
   "n", "o", "p", "q", "r", "s", "t", "u", "v", "w", "x", "y", "z",
   "A", "B", "C", "D", "E", "F", "G", "H", "I", "J", "K", "L", "M",
   "N", "O", "P", "Q", "R", "S", "T", "U", "V", "W", "X", "Y", "Z"}

\* \s
Whitespace == {" ", "\t", "\n", "\r", "\f"}

\* does character c belong to the class named cls?
InClass(cls, c) ==
  CASE cls = "S"      -> c \notin Whitespace              \* \S
    [] cls = "s"      -> c \in Whitespace                 \* \s
    [] cls = "d"      -> c \in Digits                     \* \d
    [] cls = "time"   -> c \in Digits \cup Letters \cup {"_", ":", "/"}  \* [\w:/]
    [] cls = "sign"   -> c \in {"+", "-"}                 \* [+\-]
    [] OTHER          -> c = cls                          \* a literal character

\* "unbounded" repetition count of + and *
Inf == 1000

\* one quantified character class of a pattern: class, {min,max}, capture group (0: none)
El(cls, min, max, grp) == [cls |-> cls, min |-> min, max |-> max, grp |-> grp]

Lit(c) == El(c, 1, 1, 0)

\* the head with a protocol that may not be empty, (\S+)
PatternHeadProtocolRequired ==
  << El("S", 1, Inf, 1), Lit(" "), El("S", 1, Inf, 2), Lit(" "), El("S", 1, Inf, 3),
     Lit(" "), Lit("["),
     El("time", 1, Inf, 4), El("s", 1, 1, 4), El("sign", 1, 1, 4), El("d", 4, 4, 4),
     Lit("]"), Lit(" "), Lit("\""),
     El("S", 1, Inf, 5), Lit(" "), El("S", 1, Inf, 6), El("s", 0, Inf, 0),
     El("S", 1, Inf, 7) >>

\* '^(\S+) (\S+) (\S+) \[([\w:/]+\s[+\-]\d{4})\] "(\S+) (\S+)\s*(\S*)
PatternHead ==
  << El("S", 1, Inf, 1), Lit(" "), El("S", 1, Inf, 2), Lit(" "), El("S", 1, Inf, 3),
     Lit(" "), Lit("["),
     El("time", 1, Inf, 4), El("s", 1, 1, 4), El("sign", 1, 1, 4), El("d", 4, 4, 4),
     Lit("]"), Lit(" "), Lit("\""),
     El("S", 1, Inf, 5), Lit(" "), El("S", 1, Inf, 6), El("s", 0, Inf, 0),
     El("S", 0, Inf, 7) >>

\* the tail with a status of any number of digits, (\d+)
PatternTailAnyDigits ==
  << Lit("\""), Lit(" "), El("d", 1, Inf, 8), Lit(" "), El("S", 1, Inf, 9) >>

\* " (\d{3}) (\S+)'
PatternTail ==
  << Lit("\""), Lit(" "), El("d", 3, 3, 8), Lit(" "), El("S", 1, Inf, 9) >>

\* the pattern string of cell (1a), kept in the comment of cell (1c)
OriginalPattern ==
  "^(\\S+) (\\S+) (\\S+) \\[([\\w:/]+\\s[+\\-]\\d{4})\\] \"(\\S+) (\\S+)\\s*(\\S*)\" (\\d{3}) (\\S+)"

\* cell (1c) left as it was handed out: the pattern is not altered
CorrectedPatternUnaltered ==
  "^(\\S+) (\\S+) (\\S+) \\[([\\w:/]+\\s[+\\-]\\d{4})\\] \"(\\S+) (\\S+)\\s*(\\S*)\" (\\d{3}) (\\S+)"

\* the pattern string assigned in cell (1c): \s* added before the closing quote
CorrectedPattern ==
  "^(\\S+) (\\S+) (\\S+) \\[([\\w:/]+\\s[+\\-]\\d{4})\\] \"(\\S+) (\\S+)\\s*(\\S*)\\s*\" (\\d{3}) (\\S+)"

\* a pattern whose protocol group may hold a blank, (\S*\s*\S*)
re_compile_spaced_protocol(pattern) ==
  SubSeq(PatternHead, 1, Len(PatternHead) - 1)
    \o << El("S", 0, Inf, 7), El("s", 0, Inf, 7), El("S", 0, Inf, 7), El("s", 0, Inf, 0) >>
    \o PatternTail

\* the pattern string as re compiles it: the sequence of its quantified classes
re_compile(pattern) ==
  IF pattern = OriginalPattern THEN PatternHead \o PatternTail
  ELSE PatternHead \o << El("s", 0, Inf, 0) >> \o PatternTail

(***************************************************************************)
(* re.search(pattern, logline) for a pattern that starts with ^ : a greedy *)
(* backtracking match at position 1                                        *)
(***************************************************************************)
Min(a, b) == IF a < b THEN a ELSE b

RECURSIVE RunLen(_, _, _, _)
\* the number of consecutive characters of class cls in s from position p, at most max
RunLen(cls, s, p, max) ==
  IF max = 0 \/ p > Len(s) \/ ~InClass(cls, s[p]) THEN 0
  ELSE 1 + RunLen(cls, s, p + 1, max - 1)

NoMatch == [ok |-> FALSE, lens |-> << >>]

RECURSIVE MatchFrom(_, _, _, _)
RECURSIVE TryLen(_, _, _, _, _)
\* match elements i.. of pat against s from position p; lens: characters taken by each
MatchFrom(pat, s, i, p) ==
  IF i > Len(pat) THEN [ok |-> TRUE, lens |-> << >>]
  ELSE LET run == RunLen(pat[i].cls, s, p, pat[i].max)
       IN  IF run < pat[i].min THEN NoMatch ELSE TryLen(pat, s, i, p, run)

\* element i takes n characters; on failure of the rest it gives one back (greedy)
TryLen(pat, s, i, p, n) ==
  LET rest == MatchFrom(pat, s, i + 1, p + n)
  IN  IF rest.ok THEN [ok |-> TRUE, lens |-> << n >> \o rest.lens]
      ELSE IF n > pat[i].min THEN TryLen(pat, s, i, p, n - 1)
      ELSE NoMatch

re_search(pat, s) == MatchFrom(pat, s, 1, 1)

RECURSIVE GroupFrom(_, _, _, _, _, _)
GroupFrom(pat, lens, s, g, i, p) ==
  IF i > Len(pat) THEN << >>
  ELSE (IF pat[i].grp = g THEN SubSeq(s, p, p + lens[i] - 1) ELSE << >>)
       \o GroupFrom(pat, lens, s, g, i + 1, p + lens[i])

\* match.group(g)
group(pat, m, s, g) == GroupFrom(pat, m.lens, s, g, 1, 1)

(***************************************************************************)
(* int(), long(), slices, datetime.datetime                                *)
(***************************************************************************)
DigitVal(c) ==
  CASE c = "0" -> 0 [] c = "1" -> 1 [] c = "2" -> 2 [] c = "3" -> 3 [] c = "4" -> 4
    [] c = "5" -> 5 [] c = "6" -> 6 [] c = "7" -> 7 [] c = "8" -> 8 [] c = "9" -> 9

\* s[a:b] of Python (0-based, b exclusive, clamped to the length)
Slice(s, a, b) == SubSeq(s, a + 1, Min(b, Len(s)))

RECURSIVE Strip(_)
\* str.strip(): int() ignores surrounding whitespace
Strip(s) ==
  IF s = << >> THEN s
  ELSE IF s[1] \in Whitespace THEN Strip(Tail(s))
  ELSE IF s[Len(s)] \in Whitespace THEN Strip(SubSeq(s, 1, Len(s) - 1))
  ELSE s

RECURSIVE DecimalValue(_)
DecimalValue(s) ==
  IF s = << >> THEN 0 ELSE 10 * DecimalValue(SubSeq(s, 1, Len(s) - 1)) + DigitVal(s[Len(s)])

AllDigits(s) == s # << >> /\ \A i \in 1..Len(s) : s[i] \in Digits

\* int(s) / long(s) in base 10: [ok, val]; ~ok stands for ValueError
int(s) ==
  LET t == Strip(s)
      signed == t # << >> /\ t[1] \in {"+", "-"}
      body == IF signed THEN Tail(t) ELSE t
  IN  IF AllDigits(body)
        THEN [ok |-> TRUE, val |-> IF signed /\ t[1] = "-" THEN 0 - DecimalValue(body)
                                                         ELSE DecimalValue(body)]
        ELSE [ok |-> FALSE, val |-> 0]

IsLeap(y) == (y % 4 = 0 /\ y % 100 # 0) \/ y % 400 = 0

DaysInMonth(y, m) ==
  IF m = 2 THEN (IF IsLeap(y) THEN 29 ELSE 28)
  ELSE IF m \in {4, 6, 9, 11} THEN 30 ELSE 31

\* the argument check of datetime.datetime(year, month, day, hour, minute, second)
ValidDateTime(y, mo, d, h, mi, s) ==
  /\ y \in 1..9999 /\ mo \in 1..12 /\ d >= 1 /\ d <= DaysInMonth(y, mo)
  /\ h \in 0..23 /\ mi \in 0..59 /\ s \in 0..59

month_map ==
  [m \in {<<"J","a","n">>, <<"F","e","b">>, <<"M","a","r">>, <<"A","p","r">>,
          <<"M","a","y">>, <<"J","u","n">>, <<"J","u","l">>, <<"A","u","g">>,
          <<"S","e","p">>, <<"O","c","t">>, <<"N","o","v">>, <<"D","e","c">>} |->
     CASE m = <<"J","a","n">> -> 1  [] m = <<"F","e","b">> -> 2  [] m = <<"M","a","r">> -> 3
       [] m = <<"A","p","r">> -> 4  [] m = <<"M","a","y">> -> 5  [] m = <<"J","u","n">> -> 6
       [] m = <<"J","u","l">> -> 7  [] m = <<"A","u","g">> -> 8  [] m = <<"S","e","p">> -> 9
       [] m = <<"O","c","t">> -> 10 [] m = <<"N","o","v">> -> 11 [] m = <<"D","e","c">> -> 12]

NoDateTime == [year |-> 0, month |-> 0, day |-> 0, hour |-> 0, minute |-> 0, second |-> 0]

\* parse_apache_time(s): [exc, dt]; exc is "" on return, else the exception raised.
\* Python evaluates the arguments left to right, then datetime() checks the ranges.
parse_apache_time(s) ==
  LET year   == int(Slice(s, 7, 11))
      mon    == Slice(s, 3, 6)
      day    == int(Slice(s, 0, 2))
      hour   == int(Slice(s, 12, 14))
      minute == int(Slice(s, 15, 17))
      second == int(Slice(s, 18, 20))
      Raise(e) == [exc |-> e, dt |-> NoDateTime]
  IN  IF ~year.ok THEN Raise("ValueError")
      ELSE IF mon \notin DOMAIN month_map THEN Raise("KeyError")
      ELSE IF ~(day.ok /\ hour.ok /\ minute.ok /\ second.ok) THEN Raise("ValueError")
      ELSE IF ~ValidDateTime(year.val, month_map[mon], day.val, hour.val, minute.val, second.val)
        THEN Raise("ValueError")
      ELSE [exc |-> "",
            dt  |-> [year |-> year.val, month |-> month_map[mon], day |-> day.val,
                     hour |-> hour.val, minute |-> minute.val, second |-> second.val]]

(***************************************************************************)
(* parseApacheLogLine                                                      *)
(***************************************************************************)
\* the three ways a call ends: return (Row, 1), return (logline, 0), raise
ReturnRow(r) == [tag |-> 1, row |-> r]

\* the failure carries the line cut at its first whitespace
ReturnFirstField(l) == [tag |-> 0, line |-> SubSeq(l, 1, RunLen("S", l, 1, Len(l)))]

ReturnLine(l) == [tag |-> 0, line |-> l]

Raised(e) == [tag |-> -1, exc |-> e]

\* parseApacheLogLine(logline), the global APACHE_ACCESS_LOG_PATTERN being pattern
parseApacheLogLine(pattern, logline) ==
  LET pat == re_compile(pattern)
      match == re_search(pat, logline)
      size_field == group(pat, match, logline, 9)
      size == IF size_field = << "-" >> THEN [ok |-> TRUE, val |-> 0] ELSE int(size_field)
      time == parse_apache_time(group(pat, match, logline, 4))
  IN  IF ~match.ok THEN ReturnLine(logline)
      ELSE IF ~size.ok THEN Raised("ValueError")
      ELSE IF time.exc # "" THEN Raised(time.exc)
      ELSE ReturnRow([host          |-> group(pat, match, logline, 1),
                      client_identd |-> group(pat, match, logline, 2),
                      user_id       |-> group(pat, match, logline, 3),
                      date_time     |-> time.dt,
                      method        |-> group(pat, match, logline, 5),
                      endpoint      |-> group(pat, match, logline, 6),
                      protocol      |-> group(pat, match, logline, 7),
                      response_code |-> int(group(pat, match, logline, 8)).val,
                      content_size  |-> size.val])

(***************************************************************************)
(* Log lines: host ident user [day/Mon/year:HH:MM:SS offset] "request"     *)
(* status size, as in the example line of cell (1c)                        *)
(***************************************************************************)
Time(day, mon, year, hms, off) ==
  day \o <<"/">> \o mon \o <<"/">> \o year \o <<":">> \o hms \o <<" ">> \o off

LogLine(host, time, request, status, size) ==
  host \o <<" ", "-", " ", "-", " ", "[">> \o time \o <<"]", " ", "\"">>
       \o request \o <<"\"", " ">> \o status \o <<" ">> \o size

Aug == <<"A","u","g">>
Y1995 == <<"1","9","9","5">>
Midnight == <<"0","0",":","0","0",":","0","1">>
Afternoon == <<"1","3",":","3","0",":","5","9">>
EDT == <<"-","0","4","0","0">>
UTC == <<"+","0","0","0","0">>

\* timestamps that parse_apache_time accepts
GoodTimes ==
  { Time(<<"0","1">>, Aug, Y1995, Midnight, EDT),
    Time(<<"0","1">>, Aug, Y1995, Midnight, UTC),
    Time(<<"0","2">>, Aug, Y1995, Afternoon, EDT) }

\* timestamps that match [\w:/]+\s[+\-]\d{4} and that parse_apache_time cannot convert
BadTimes ==
  { Time(<<"0","1">>, <<"X","y","z">>, Y1995, Midnight, EDT),       \* unknown month
    Time(<<"3","1">>, <<"S","e","p">>, Y1995, Midnight, EDT),       \* 31 September
    Time(<<"0","1">>, Aug, Y1995, <<"2","4",":","0","0",":","0","1">>, EDT),  \* hour 24
    Time(<<"0","1">>, Aug, Y1995, <<"0","a",":","0","0",":","0","1">>, EDT),  \* hour '0a'
    Time(<<"1">>, Aug, Y1995, Midnight, EDT) }                      \* one-digit day

\* a timestamp with a seconds field of three digits, which [\w:/]+ accepts as well
LongTimes ==
  { Time(<<"0","1">>, Aug, Y1995, <<"0","0",":","0","0",":","0","1","9">>, EDT) }

\* timestamps that the pattern rejects
UnmatchedTimes ==
  { <<"0","1">> \o <<"/">> \o Aug \o <<"/">> \o Y1995 \o <<":">> \o Midnight,   \* no offset
    Time(<<"0","1">>, Aug, Y1995, Midnight, <<"-","0","4","0">>) }  \* 3-digit offset

GET == <<"G","E","T">>
SlashA == <<"/","a">>
SlashB == <<"/","b">>
SlashC == <<"/","c">>
Http == <<"H","/","1">>

\* request lines without whitespace before the closing quote
PlainRequests ==
  { GET \o <<" ">> \o SlashA \o <<" ">> \o Http,
    GET \o <<" ">> \o SlashB \o <<" ">> \o Http,
    GET \o <<" ">> \o SlashA \o <<" ", " ">> \o Http,     \* two spaces before the protocol
    GET \o <<" ">> \o SlashA,                             \* no protocol
    GET,                                                  \* no endpoint
    GET \o <<" ">> \o SlashA \o <<" ">> \o SlashB \o <<" ">> \o Http,   \* four tokens
    GET \o <<" ">> \o SlashA \o <<" ">> \o Http                       \* a quote in a token
        \o <<"\"", " ", "2", "0", "0", " ", "1", "0", " ", "x">> }

\* whitespace found before the closing quote
Trailers == { <<" ">>, <<"\t", " ">> }

Requests == PlainRequests \cup { r \o t : r \in PlainRequests, t \in Trailers }

Statuses ==
  { <<"2","0","0">>, <<"0","0","0">>, <<"9","9","9">>, <<"2","0">>, <<"2","0","0","0">> }

Sizes == { <<"1","0">>, <<"-">>, <<"-","5">>, <<"x">> }

Hosts == { <<"h">>, <<"g">> }

\* the lines of the parser specification
ParserLines ==
  { LogLine(<<"h">>, t, r, st, sz) :
      t \in GoodTimes \cup BadTimes \cup LongTimes \cup UnmatchedTimes, r \in Requests,
      st \in Statuses, sz \in Sizes }

(***************************************************************************)
(* The notebook: its global names and its cells                            *)
(***************************************************************************)
VARIABLES
  logFile,                    \* the lines that sc.textFile(logFile) yields
  APACHE_ACCESS_LOG_PATTERN,  \* the module-level pattern
  defined,                    \* the global names bound so far, beside the pattern
  parsed_logs,                \* RDD of the results of parseApacheLogLine
  access_logs,                \* RDD of the Rows
  failed_logs,                \* RDD of the lines that did not match
  pc,                         \* the next cell of the run
  exc,                        \* the exception that ended the last cell, "" if none
  calls,                      \* history: the calls of parseApacheLogLine made so far
  topK,                       \* the number of elements asked of takeOrdered and take
  printed,                    \* what the latest run of parseLogs() has printed
  responseCodeToCount,        \* cell (2b)
  endpointCounts, topEndpoints,                       \* cell (2e)
  endpointSum, topTenErrURLs,                         \* cell (3a)
  badRecords,                                         \* cell (4a)
  badEndpointsSum, badEndpointsTop20,                 \* cell (4c)
  errHostsSum, errHostsTop25,                         \* cell (4d)
  errDateSum, errDateSorted,                          \* cell (4e)
  topErrDate,                                         \* cell (4g)
  hourRecordsSum, hourRecordsSorted,                  \* cell (4h)
  content_sizes, contentSizeStats,                    \* cell (2a): the RDD, the values printed
  dailyHosts,                                         \* cell (3c)
  daysWithHosts, hosts,                               \* cell (3d)
  avgDailyReqPerHost,                                 \* cell (3e)
  daysWithAvg, avgs,                                  \* cell (3f)
  daysWithErrors404, errors404ByDay,                  \* cell (4f)
  hoursWithErrors404, errors404ByHours,               \* cell (4i)
  hostSum, hostsPick20,                               \* cell (2d)
  uniqueHosts, uniqueHostCount,                       \* cell (3b), which also binds hosts
  badUniqueEndpointsPick40                            \* cell (4b)

\* the names bound by parseLogs() and the history of the parser
logs == << parsed_logs, access_logs, failed_logs, calls, printed >>

\* the names bound by each aggregation cell
out2b == << responseCodeToCount >>
out2e == << endpointCounts, topEndpoints >>
out3a == << endpointSum, topTenErrURLs >>
out4a == << badRecords >>
out4c == << badEndpointsSum, badEndpointsTop20 >>
out4d == << errHostsSum, errHostsTop25 >>
out4e == << errDateSum, errDateSorted >>
out4g == << topErrDate >>
out4h == << hourRecordsSum, hourRecordsSorted >>
out2a == << content_sizes, contentSizeStats >>
out3c == << dailyHosts >>
out3d == << daysWithHosts, hosts >>
out3e == << avgDailyReqPerHost >>
out3f == << daysWithAvg, avgs >>
out4f == << daysWithErrors404, errors404ByDay >>
out4i == << hoursWithErrors404, errors404ByHours >>
out2d == << hostSum, hostsPick20 >>
out3b == << uniqueHosts, uniqueHostCount >>
out4b == << badUniqueEndpointsPick40 >>

\* what no aggregation cell assigns
fixed == << logFile, APACHE_ACCESS_LOG_PATTERN, topK, logs >>

vars == << fixed, defined, pc, exc,
           out2b, out2e, out3a, out4a, out4c, out4d, out4e, out4g, out4h,
           out2a, out3c, out3d, out3e, out3f, out4f, out4i,
           out2d, out3b, out4b >>

\* the cells in notebook order; every cell is run once, top to bottom, and a cell
\* that raised does not keep the next one from being run
CellOrder ==
  << "1b", "1c", "2a", "2b", "2d", "2e", "3a", "3b", "3c", "3d", "3e", "3f",
     "4a", "4b", "4c", "4d", "4e", "4f", "4g", "4h", "4i", "end" >>

NextCell(c) == CellOrder[1 + CHOOSE i \in 1..Len(CellOrder) : CellOrder[i] = c]

\* rdd.filter(f)
Filter(rdd, f(_)) == SelectSeq(rdd, f)

\* the tasks after the first one still run with the pattern of cell (1a)
MapParseStalePattern(pat, file) ==
  [i \in 1..Len(file) |->
     parseApacheLogLine(IF i = 1 THEN pat ELSE OriginalPattern, file[i])]

\* the results of .map(parseApacheLogLine) over the file, pattern pat
MapParse(pat, file) == [i \in 1..Len(file) |-> parseApacheLogLine(pat, file[i])]

\* the positions of the results that are a raised exception
RaisingLines(results) == { i \in 1..Len(results) : results[i].tag = -1 }

\* lines read by the task before it fails (all of them when no line raises)
LinesRead(results) ==
  IF RaisingLines(results) = {} THEN Len(results)
  ELSE CHOOSE i \in RaisingLines(results) : \A j \in RaisingLines(results) : i <= j

\* the calls made by one evaluation of parsed_logs
CallsOf(pat, file, results) ==
  { [pattern |-> pat, line |-> file[i], result |-> results[i]] : i \in 1..LinesRead(results) }

IsRow(s) == s.tag = 1
IsFailure(s) == s.tag = 0

\* .filter(lambda s: s[1] == 1).map(lambda s: s[0])
RowsOf(results) ==
  LET kept == Filter(results, IsRow) IN [i \in 1..Len(kept) |-> kept[i].row]

\* .filter(lambda s: s[1] == 0).map(lambda s: s[0])
FailuresOf(results) ==
  LET kept == Filter(results, IsFailure) IN [i \in 1..Len(kept) |-> kept[i].line]

NothingPrinted == [invalid_count |-> << >>, invalid_lines |-> << >>, summary |-> << >>]

\* the prints of parseLogs(): the number of invalid lines and failed_logs.take(20) when
\* failed_logs.count() > 0, then the numbers of lines read, parsed and failed;
\* failed_logs comes from no shuffle, so that take() follows the order of the file
Report(results) ==
  LET failed == FailuresOf(results)
  IN  [invalid_count |-> IF Len(failed) > 0 THEN << Len(failed) >> ELSE << >>,
       invalid_lines |-> IF Len(failed) > 0 THEN Slice(failed, 0, 20) ELSE << >>,
       summary       |-> << Len(results), Len(RowsOf(results)), Len(failed) >>]

\* parseLogs() followed by the binding of its three results; the first action,
\* failed_logs.count(), runs the job and an exception in a task aborts it
parseLogs(pat) ==
  LET results == MapParse(pat, logFile)
  IN  /\ calls' = calls \cup CallsOf(pat, logFile, results)
      /\ IF RaisingLines(results) # {}
           THEN /\ exc' = "Py4JJavaError"
                /\ printed' = NothingPrinted
                /\ UNCHANGED << defined, parsed_logs, access_logs, failed_logs >>
           ELSE /\ exc' = ""
                /\ printed' = Report(results)
                /\ parsed_logs' = results
                /\ access_logs' = RowsOf(results)
                /\ failed_logs' = FailuresOf(results)
                /\ defined' = defined \cup {"parsed_logs", "access_logs", "failed_logs"}

aggOut == << out2b, out2e, out3a, out4a, out4c, out4d, out4e, out4g, out4h >>

\* the names bound by the statistics cell and by the per-day and per-hour series
seriesOut == << out2a, out3c, out3d, out3e, out3f, out4f, out4i >>

\* the names bound by the cells that list hosts and endpoints
pickOut == << out2d, out3b, out4b >>

\* cell (1b): parsed_logs, access_logs, failed_logs = parseLogs()
Cell1b ==
  /\ pc = "1b"
  /\ pc' = NextCell(pc)
  /\ parseLogs(APACHE_ACCESS_LOG_PATTERN)
  /\ UNCHANGED << logFile, APACHE_ACCESS_LOG_PATTERN, topK, aggOut, seriesOut, pickOut >>

\* cell (1c): the pattern is re-assigned, then parseLogs() is run again
Cell1c ==
  /\ pc = "1c"
  /\ pc' = NextCell(pc)
  /\ APACHE_ACCESS_LOG_PATTERN' = CorrectedPattern
  /\ parseLogs(CorrectedPattern)
  /\ UNCHANGED << logFile, topK, aggOut, seriesOut, pickOut >>

(***************************************************************************)
(* RDD transformations and actions used by the aggregation cells           *)
(***************************************************************************)
\* .map(lambda log: (key(log), 1))
MapToPairWithOne(rdd, key(_)) == [i \in 1..Len(rdd) |-> << key(rdd[i]), 1 >>]

\* position of key k in a list of (key, value) pairs, 0 when absent
IndexOfKey(pairs, k) ==
  IF \E i \in 1..Len(pairs) : pairs[i][1] = k
    THEN CHOOSE i \in 1..Len(pairs) : pairs[i][1] = k
    ELSE 0

RECURSIVE reduceByKeyLastValue(_)
\* the value met last replaces the value kept so far: lambda a, b : b
reduceByKeyLastValue(pairs) ==
  IF pairs = << >> THEN << >>
  ELSE LET acc == reduceByKeyLastValue(SubSeq(pairs, 1, Len(pairs) - 1))
           kv  == pairs[Len(pairs)]
           i   == IndexOfKey(acc, kv[1])
       IN  IF i = 0 THEN Append(acc, kv)
           ELSE [acc EXCEPT ![i] = kv]

RECURSIVE reduceByKey(_)
\* .reduceByKey(lambda a, b : a + b): the values of each key are merged with a + b;
\* the pairs are listed by first occurrence of their key
reduceByKey(pairs) ==
  IF pairs = << >> THEN << >>
  ELSE LET acc == reduceByKey(SubSeq(pairs, 1, Len(pairs) - 1))
           kv  == pairs[Len(pairs)]
           i   == IndexOfKey(acc, kv[1])
       IN  IF i = 0 THEN Append(acc, kv)
           ELSE [acc EXCEPT ![i] = << kv[1], acc[i][2] + kv[2] >>]

\* sorted(xs, key=key): ascending and stable
sorted(xs, key(_)) ==
  LET Before(i, j) == key(xs[i]) < key(xs[j]) \/ (key(xs[i]) = key(xs[j]) /\ i < j)
      Rank(i) == 1 + Cardinality({ j \in 1..Len(xs) : Before(j, i) })
  IN  [p \in 1..Len(xs) |-> xs[CHOOSE i \in 1..Len(xs) : Rank(i) = p]]

\* the pairs left in the order of the shuffle
keepOrder(pairs) == pairs

\* .sortByKey()
sortByKey(pairs) == LET KeyOf(kv) == kv[1] IN sorted(pairs, KeyOf)

\* the orders in which the partitions of a shuffled RDD can hand over its elements
PartitionOrders(rdd) ==
  { [i \in 1..Len(rdd) |-> rdd[f[i]]] :
      f \in { g \in [1..Len(rdd) -> 1..Len(rdd)] :
                \A i, j \in 1..Len(rdd) : g[i] = g[j] => i = j } }

\* lambda s: s[1], the -1 forgotten
PlainCount(s) == s[2]

\* lambda s: -1 * s[1]
NegCount(s) == -1 * s[2]

\* heapq.nsmallest(num, elements, key) of takeOrdered, elements met in the order given
nsmallest(num, elements, key(_)) == Slice(sorted(elements, key), 0, num)

\* rdd.collect() in the place of rdd.take(num): all the elements
collectAll(rdd, num) == PartitionOrders(rdd)

\* rdd.take(num) of an RDD that comes out of a shuffle: the lists it can return
rddTake(rdd, num) == { Slice(o, 0, num) : o \in PartitionOrders(rdd) }

\* rdd.take(num): the first num elements, in the order the partitions hand them over
take(rdd, num) == { Slice(o, 0, num) : o \in PartitionOrders(rdd) }

\* rdd.takeOrdered(num, lambda s: -1 * s[1]) of an RDD that comes out of a shuffle:
\* the lists it can return
takeOrdered(rdd, num) == { nsmallest(num, o, NegCount) : o \in PartitionOrders(rdd) }

host_of(log) == log.host
endpoint_of(log) == log.endpoint
response_code_of(log) == log.response_code
\* the month kept in the key, next to the day
month_day_of(log) == log.date_time.month * 100 + log.date_time.day

day_of(log) == log.date_time.day

hour_of(log) == log.date_time.hour
content_size_of(log) == log.content_size

\* .map(lambda log: key(log))
Map(rdd, key(_)) == [i \in 1..Len(rdd) |-> key(rdd[i])]

\* what an action of an RDD hands back: a value, or ValueError for an empty RDD
Value(v) == [ok |-> TRUE, val |-> v]
EmptyRDD == [ok |-> FALSE, val |-> 0]

RECURSIVE FoldAdd(_)
\* the elements merged with a + b from left to right, 0 when there is none
FoldAdd(xs) ==
  IF xs = << >> THEN 0 ELSE FoldAdd(SubSeq(xs, 1, Len(xs) - 1)) + xs[Len(xs)]

\* rdd.fold(0, lambda a, b : a + b): an empty RDD gives 0
foldAdd(rdd) == Value(FoldAdd(rdd))

\* rdd.reduce(lambda a, b : a + b): ValueError("Can not reduce() empty RDD")
reduceAdd(rdd) == IF rdd = << >> THEN EmptyRDD ELSE Value(FoldAdd(rdd))

\* rdd.count()
count(rdd) == Len(rdd)

\* rdd.reduce(lambda a, b : a): the element met first is kept
reduceKeepFirst(rdd) == IF rdd = << >> THEN EmptyRDD ELSE Value(rdd[1])

\* rdd.min(), which is rdd.reduce(min)
rddMin(rdd) ==
  IF rdd = << >> THEN EmptyRDD
  ELSE Value(CHOOSE m \in { rdd[i] : i \in 1..Len(rdd) } :
               \A i \in 1..Len(rdd) : m <= rdd[i])

\* rdd.reduce(lambda a, b : b): the element met last is kept
reduceKeepLast(rdd) == IF rdd = << >> THEN EmptyRDD ELSE Value(rdd[Len(rdd)])

\* rdd.max(), which is rdd.reduce(max)
rddMax(rdd) ==
  IF rdd = << >> THEN EmptyRDD
  ELSE Value(CHOOSE m \in { rdd[i] : i \in 1..Len(rdd) } :
               \A i \in 1..Len(rdd) : m >= rdd[i])

\* a / b that rounds toward zero, as C does
IntDivTowardZero(a, b) ==
  IF (a < 0) = (b < 0) \/ a % b = 0 THEN a \div b ELSE (a \div b) + 1

\* a / b of two Python 2 integers: the floor of the quotient
IntDiv(a, b) == a \div b

RECURSIVE groupByKey(_)
\* .groupByKey(): each key with the list of its values; keys by first occurrence
groupByKey(pairs) ==
  IF pairs = << >> THEN << >>
  ELSE LET acc == groupByKey(SubSeq(pairs, 1, Len(pairs) - 1))
           kv  == pairs[Len(pairs)]
           i   == IndexOfKey(acc, kv[1])
       IN  IF i = 0 THEN Append(acc, << kv[1], << kv[2] >> >>)
           ELSE [acc EXCEPT ![i] = << kv[1], Append(acc[i][2], kv[2]) >>]

\* lambda (a, b) : (a, len(b)): the hosts are not made unique
DayHostCountAll(kv) == << kv[1], Len(kv[2]) >>

\* lambda (a, b) : (a, len(set(b)))
DayHostCount(kv) == << kv[1], Cardinality({ kv[2][i] : i \in 1..Len(kv[2]) }) >>

\* every element kept, as many times as it occurs
keepAll(rdd) == rdd

RECURSIVE distinct(_)
\* .distinct(): each element once
distinct(rdd) ==
  IF rdd = << >> THEN << >>
  ELSE LET acc == distinct(SubSeq(rdd, 1, Len(rdd) - 1))
       IN  IF \E i \in 1..Len(acc) : acc[i] = rdd[Len(rdd)] THEN acc
           ELSE Append(acc, rdd[Len(rdd)])

\* the pairs of left and right taken position by position, their keys not compared
joinByPosition(left, right) ==
  [i \in 1..Min(Len(left), Len(right)) |->
     << left[i][1], << left[i][2], right[i][2] >> >>]

RECURSIVE join(_, _)
\* left.join(right): (k, (v, w)) for every (k, v) of left and (k, w) of right
join(left, right) ==
  IF left = << >> THEN << >>
  ELSE LET kv == left[Len(left)]
           matches == SelectSeq(right, LAMBDA kw : kw[1] = kv[1])
       IN  join(SubSeq(left, 1, Len(left) - 1), right)
             \o [i \in 1..Len(matches) |-> << kv[1], << kv[2], matches[i][2] >> >>]

\* lambda (a, b) : (a, b[1] / b[0]): the quotient upside down
HostsPerRequest(kv) == << kv[1], IntDiv(kv[2][2], kv[2][1]) >>

\* lambda (a, b) : (a, b[0] / b[1])
RequestsPerHost(kv) == << kv[1], IntDiv(kv[2][1], kv[2][2]) >>

\* lambda (x, y): x
KeyOfPair(kv) == kv[1]

\* lambda (x, y): y
ValueOfPair(kv) == kv[2]

\* lambda log: (log.date_time.date().day, log.host)
day_host_of(log) == << log.date_time.day, log.host >>

(***************************************************************************)
(* The aggregation cells                                                   *)
(***************************************************************************)
\* cell (2b): response code to count; the assert compares with the counts of the
\* NASA file, which no file of the sizes explored here has
Cell2b ==
  /\ pc = "2b"
  /\ pc' = NextCell(pc)
  /\ IF "access_logs" \notin defined
       THEN exc' = "NameError" /\ UNCHANGED << defined, out2b >>
       ELSE /\ responseCodeToCount' =
                 reduceByKey(MapToPairWithOne(access_logs, response_code_of))
            /\ defined' = defined \cup {"responseCodeToCount"}
            /\ exc' = "AssertionError"
  /\ UNCHANGED << fixed, out2e, out3a, out4a, out4c, out4d, out4e, out4g, out4h, seriesOut, pickOut >>

\* cell (2e): top endpoints; the assert compares with the endpoints of the NASA file
Cell2e ==
  /\ pc = "2e"
  /\ pc' = NextCell(pc)
  /\ IF "access_logs" \notin defined
       THEN exc' = "NameError" /\ UNCHANGED << defined, out2e >>
       ELSE /\ endpointCounts' = reduceByKey(MapToPairWithOne(access_logs, endpoint_of))
            /\ topEndpoints' \in takeOrdered(endpointCounts', topK)
            /\ defined' = defined \cup {"endpointCounts", "topEndpoints"}
            /\ exc' = "AssertionError"
  /\ UNCHANGED << fixed, out2b, out3a, out4a, out4c, out4d, out4e, out4g, out4h, seriesOut, pickOut >>

\* lambda log: True, the filter on the response code left out
AnyRecord(log) == TRUE

Not200(log) == log.response_code # 200

\* cell (3a): top error endpoints
Cell3a ==
  /\ pc = "3a"
  /\ pc' = NextCell(pc)
  /\ IF "access_logs" \notin defined
       THEN exc' = "NameError" /\ UNCHANGED << defined, out3a >>
       ELSE /\ endpointSum' =
                 reduceByKey(MapToPairWithOne(Filter(access_logs, Not200), endpoint_of))
            /\ topTenErrURLs' \in takeOrdered(endpointSum', topK)
            /\ defined' = defined \cup {"endpointSum", "topTenErrURLs"}
            /\ exc' = ""
  /\ UNCHANGED << fixed, out2b, out2e, out4a, out4c, out4d, out4e, out4g, out4h, seriesOut, pickOut >>

Is404(log) == log.response_code = 404

\* cell (4a): the 404 records
Cell4a ==
  /\ pc = "4a"
  /\ pc' = NextCell(pc)
  /\ IF "access_logs" \notin defined
       THEN exc' = "NameError" /\ UNCHANGED << defined, out4a >>
       ELSE /\ badRecords' = Filter(access_logs, Is404)
            /\ defined' = defined \cup {"badRecords"}
            /\ exc' = ""
  /\ UNCHANGED << fixed, out2b, out2e, out3a, out4c, out4d, out4e, out4g, out4h, seriesOut, pickOut >>

\* cell (4c): top 404 endpoints
Cell4c ==
  /\ pc = "4c"
  /\ pc' = NextCell(pc)
  /\ IF "badRecords" \notin defined
       THEN exc' = "NameError" /\ UNCHANGED << defined, out4c >>
       ELSE /\ badEndpointsSum' = reduceByKey(MapToPairWithOne(badRecords, endpoint_of))
            /\ badEndpointsTop20' \in takeOrdered(badEndpointsSum', topK)
            /\ defined' = defined \cup {"badEndpointsSum", "badEndpointsTop20"}
            /\ exc' = ""
  /\ UNCHANGED << fixed, out2b, out2e, out3a, out4a, out4d, out4e, out4g, out4h, seriesOut, pickOut >>

\* cell (4d): top 404 hosts
Cell4d ==
  /\ pc = "4d"
  /\ pc' = NextCell(pc)
  /\ IF "badRecords" \notin defined
       THEN exc' = "NameError" /\ UNCHANGED << defined, out4d >>
       ELSE /\ errHostsSum' = reduceByKey(MapToPairWithOne(badRecords, host_of))
            /\ errHostsTop25' \in takeOrdered(errHostsSum', topK)
            /\ defined' = defined \cup {"errHostsSum", "errHostsTop25"}
            /\ exc' = ""
  /\ UNCHANGED << fixed, out2b, out2e, out3a, out4a, out4c, out4e, out4g, out4h, seriesOut, pickOut >>

\* cell (4e): 404 errors per day
Cell4e ==
  /\ pc = "4e"
  /\ pc' = NextCell(pc)
  /\ IF "badRecords" \notin defined
       THEN exc' = "NameError" /\ UNCHANGED << defined, out4e >>
       ELSE /\ errDateSum' = reduceByKey(MapToPairWithOne(badRecords, day_of))
            /\ errDateSorted' = sortByKey(errDateSum')
            /\ defined' = defined \cup {"errDateSum", "errDateSorted"}
            /\ exc' = ""
  /\ UNCHANGED << fixed, out2b, out2e, out3a, out4a, out4c, out4d, out4g, out4h, seriesOut, pickOut >>

\* cell (4g): top days of 404 errors; errDateSorted is range-partitioned by day, so
\* takeOrdered meets its elements in day order
Cell4g ==
  /\ pc = "4g"
  /\ pc' = NextCell(pc)
  /\ IF "errDateSorted" \notin defined
       THEN exc' = "NameError" /\ UNCHANGED << defined, out4g >>
       ELSE /\ topErrDate' = nsmallest(topK, errDateSorted, NegCount)
            /\ defined' = defined \cup {"topErrDate"}
            /\ exc' = ""
  /\ UNCHANGED << fixed, out2b, out2e, out3a, out4a, out4c, out4d, out4e, out4h, seriesOut, pickOut >>

\* cell (4h): 404 errors per hour
Cell4h ==
  /\ pc = "4h"
  /\ pc' = NextCell(pc)
  /\ IF "badRecords" \notin defined
       THEN exc' = "NameError" /\ UNCHANGED << defined, out4h >>
       ELSE /\ hourRecordsSum' = reduceByKey(MapToPairWithOne(badRecords, hour_of))
            /\ hourRecordsSorted' = sortByKey(hourRecordsSum')
            /\ defined' = defined \cup {"hourRecordsSum", "hourRecordsSorted"}
            /\ exc' = ""
  /\ UNCHANGED << fixed, out2b, out2e, out3a, out4a, out4c, out4d, out4e, out4g, seriesOut, pickOut >>

\* cell (2a): the content sizes, then their average, minimum and maximum printed; the
\* operands of the print are evaluated from left to right
Cell2a ==
  /\ pc = "2a"
  /\ pc' = NextCell(pc)
  /\ IF "access_logs" \notin defined
       THEN exc' = "NameError" /\ UNCHANGED << defined, out2a >>
       ELSE /\ content_sizes' = Map(access_logs, content_size_of)
            /\ defined' = defined \cup {"content_sizes"}
            /\ LET total == reduceAdd(content_sizes')
                   n     == count(content_sizes')
                   lo    == rddMin(content_sizes')
                   hi    == rddMax(content_sizes')
               IN  IF ~total.ok
                     THEN exc' = "ValueError" /\ UNCHANGED contentSizeStats
                   ELSE IF n = 0
                     THEN exc' = "ZeroDivisionError" /\ UNCHANGED contentSizeStats
                   ELSE IF ~lo.ok \/ ~hi.ok
                     THEN exc' = "ValueError" /\ UNCHANGED contentSizeStats
                   ELSE /\ contentSizeStats' =
                             << [avg |-> IntDiv(total.val, n), min |-> lo.val, max |-> hi.val] >>
                        /\ exc' = ""
  /\ UNCHANGED << fixed, aggOut, out3c, out3d, out3e, out3f, out4f, out4i, pickOut >>

\* cell (3c): the number of unique hosts of each day, by increasing day
Cell3c ==
  /\ pc = "3c"
  /\ pc' = NextCell(pc)
  /\ IF "access_logs" \notin defined
       THEN exc' = "NameError" /\ UNCHANGED << defined, out3c >>
       ELSE /\ LET dayToHostPairTuple == groupByKey(Map(access_logs, day_host_of))
                   dayHostCount == Map(dayToHostPairTuple, DayHostCount)
               IN  dailyHosts' = sortByKey(dayHostCount)
            /\ defined' = defined \cup {"dailyHosts"}
            /\ exc' = ""
  /\ UNCHANGED << fixed, aggOut, out2a, out3d, out3e, out3f, out4f, out4i, pickOut >>

\* cell (3d): the days and the numbers of hosts of dailyHosts, collected one after
\* the other from the cached RDD
Cell3d ==
  /\ pc = "3d"
  /\ pc' = NextCell(pc)
  /\ IF "dailyHosts" \notin defined
       THEN exc' = "NameError" /\ UNCHANGED << defined, out3d >>
       ELSE /\ daysWithHosts' = Map(dailyHosts, KeyOfPair)
            /\ hosts' = Map(dailyHosts, ValueOfPair)
            /\ defined' = defined \cup {"daysWithHosts", "hosts"}
            /\ exc' = ""
  /\ UNCHANGED << fixed, aggOut, out2a, out3c, out3e, out3f, out4f, out4i, pickOut >>

\* cell (3e): the requests of each day divided by the unique hosts of that day
Cell3e ==
  /\ pc = "3e"
  /\ pc' = NextCell(pc)
  /\ IF "access_logs" \notin defined \/ "dailyHosts" \notin defined
       THEN exc' = "NameError" /\ UNCHANGED << defined, out3e >>
       ELSE /\ LET dayAndHostTuple ==
                     distinct(reduceByKey(MapToPairWithOne(access_logs, day_of)))
                   groupedByDay == join(dayAndHostTuple, dailyHosts)
                   sortedByDay == sortByKey(groupedByDay)
               IN  avgDailyReqPerHost' = Map(sortedByDay, RequestsPerHost)
            /\ defined' = defined \cup {"avgDailyReqPerHost"}
            /\ exc' = ""
  /\ UNCHANGED << fixed, aggOut, out2a, out3c, out3d, out3f, out4f, out4i, pickOut >>

\* cell (3f): the days and the averages of avgDailyReqPerHost
Cell3f ==
  /\ pc = "3f"
  /\ pc' = NextCell(pc)
  /\ IF "avgDailyReqPerHost" \notin defined
       THEN exc' = "NameError" /\ UNCHANGED << defined, out3f >>
       ELSE /\ daysWithAvg' = Map(avgDailyReqPerHost, KeyOfPair)
            /\ avgs' = Map(avgDailyReqPerHost, ValueOfPair)
            /\ defined' = defined \cup {"daysWithAvg", "avgs"}
            /\ exc' = ""
  /\ UNCHANGED << fixed, aggOut, out2a, out3c, out3d, out3e, out4f, out4i, pickOut >>

\* cell (4f): the days and the numbers of 404 errors of errDateSorted
Cell4f ==
  /\ pc = "4f"
  /\ pc' = NextCell(pc)
  /\ IF "errDateSorted" \notin defined
       THEN exc' = "NameError" /\ UNCHANGED << defined, out4f >>
       ELSE /\ daysWithErrors404' = Map(errDateSorted, KeyOfPair)
            /\ errors404ByDay' = Map(errDateSorted, ValueOfPair)
            /\ defined' = defined \cup {"daysWithErrors404", "errors404ByDay"}
            /\ exc' = ""
  /\ UNCHANGED << fixed, aggOut, out2a, out3c, out3d, out3e, out3f, out4i, pickOut >>

\* cell (4i): the hours and the numbers of 404 errors of hourRecordsSorted
Cell4i ==
  /\ pc = "4i"
  /\ pc' = NextCell(pc)
  /\ IF "hourRecordsSorted" \notin defined
       THEN exc' = "NameError" /\ UNCHANGED << defined, out4i >>
       ELSE /\ hoursWithErrors404' = Map(hourRecordsSorted, KeyOfPair)
            /\ errors404ByHours' = Map(hourRecordsSorted, ValueOfPair)
            /\ defined' = defined \cup {"hoursWithErrors404", "errors404ByHours"}
            /\ exc' = ""
  /\ UNCHANGED << fixed, aggOut, out2a, out3c, out3d, out3e, out3f, out4f, pickOut >>

\* lambda s: s[1] > 10
MoreThan10(s) == s[2] > 10

\* cell (2d): the hosts with more than 10 requests, any 20 of them
Cell2d ==
  /\ pc = "2d"
  /\ pc' = NextCell(pc)
  /\ IF "access_logs" \notin defined
       THEN exc' = "NameError" /\ UNCHANGED << defined, out2d >>
       ELSE /\ hostSum' = reduceByKey(MapToPairWithOne(access_logs, host_of))
            /\ hostsPick20' \in rddTake(Map(Filter(hostSum', MoreThan10), KeyOfPair), 20)
            /\ defined' = defined \cup {"hostSum", "hostsPick20"}
            /\ exc' = ""
  /\ UNCHANGED << fixed, aggOut, seriesOut, out3b, out4b >>

\* cell (3b): the number of unique hosts; hosts is the RDD of the host of each record
\* until cell (3d) binds the name again
Cell3b ==
  /\ pc = "3b"
  /\ pc' = NextCell(pc)
  /\ IF "access_logs" \notin defined
       THEN exc' = "NameError" /\ UNCHANGED << defined, out3b, hosts >>
       ELSE /\ hosts' = Map(access_logs, host_of)
            /\ uniqueHosts' = distinct(hosts')
            /\ uniqueHostCount' = count(uniqueHosts')
            /\ defined' = defined \cup {"hosts", "uniqueHosts", "uniqueHostCount"}
            /\ exc' = ""
  /\ UNCHANGED << fixed, aggOut, out2a, out3c, daysWithHosts, out3e, out3f, out4f, out4i,
                  out2d, out4b >>

\* cell (4b): endpoints of the 404 records, each once, as many as asked
Cell4b ==
  /\ pc = "4b"
  /\ pc' = NextCell(pc)
  /\ IF "badRecords" \notin defined
       THEN exc' = "NameError" /\ UNCHANGED << defined, out4b >>
       ELSE /\ LET badEndpoints == Map(badRecords, endpoint_of)
                   badUniqueEndpoints == distinct(badEndpoints)
               IN  badUniqueEndpointsPick40' \in rddTake(badUniqueEndpoints, topK)
            /\ defined' = defined \cup {"badUniqueEndpointsPick40"}
            /\ exc' = ""
  /\ UNCHANGED << fixed, aggOut, seriesOut, out2d, out3b >>

\* files of the parser specification: one line, or two lines of a small mix
MixedLines ==
  { LogLine(<<"h">>, Time(<<"0","1">>, Aug, Y1995, Midnight, EDT), r, <<"2","0","0">>, sz) :
      r \in { GET \o <<" ">> \o SlashA \o <<" ">> \o Http,
              GET \o <<" ">> \o SlashA \o <<" ">> \o Http \o <<" ">>,
              GET },
      sz \in { <<"5">>, <<"-">>, <<"x">> } }

ParserFiles ==
  { << l >> : l \in ParserLines } \cup { << l1, l2 >> : l1 \in MixedLines, l2 \in MixedLines }

\* the state after cell (1a) and the first assignment of the pattern have run
InitNotebook ==
  /\ APACHE_ACCESS_LOG_PATTERN = OriginalPattern
  /\ defined = {}
  /\ parsed_logs = << >>
  /\ access_logs = << >>
  /\ failed_logs = << >>
  /\ pc = "1b"
  /\ exc = ""
  /\ calls = {}
  /\ printed = NothingPrinted
  /\ responseCodeToCount = << >>
  /\ endpointCounts = << >> /\ topEndpoints = << >>
  /\ endpointSum = << >> /\ topTenErrURLs = << >>
  /\ badRecords = << >>
  /\ badEndpointsSum = << >> /\ badEndpointsTop20 = << >>
  /\ errHostsSum = << >> /\ errHostsTop25 = << >>
  /\ errDateSum = << >> /\ errDateSorted = << >>
  /\ topErrDate = << >>
  /\ hourRecordsSum = << >> /\ hourRecordsSorted = << >>
  /\ content_sizes = << >> /\ contentSizeStats = << >>
  /\ dailyHosts = << >>
  /\ daysWithHosts = << >> /\ hosts = << >>
  /\ avgDailyReqPerHost = << >>
  /\ daysWithAvg = << >> /\ avgs = << >>
  /\ daysWithErrors404 = << >> /\ errors404ByDay = << >>
  /\ hoursWithErrors404 = << >> /\ errors404ByHours = << >>
  /\ hostSum = << >> /\ hostsPick20 = << >>
  /\ uniqueHosts = << >> /\ uniqueHostCount = 0
  /\ badUniqueEndpointsPick40 = << >>

\* the parser specification: many one-line files, the two parseLogs() cells
Init ==
  /\ logFile \in ParserFiles
  /\ topK = 1
  /\ InitNotebook

Next ==
  \/ Cell1b
  \/ Cell1c

Spec == Init /\ [][Next]_vars

(***************************************************************************)
(* The aggregation specification: files of up to MaxLines lines, all cells *)
(***************************************************************************)
Day1 == Time(<<"0","1">>, Aug, Y1995, Midnight, EDT)
Day2 == Time(<<"0","2">>, Aug, Y1995, Afternoon, EDT)
Sep == <<"S","e","p">>
Day1Sep == Time(<<"0","1">>, Sep, Y1995, Midnight, EDT)
Day2Sep == Time(<<"0","2">>, Sep, Y1995, Afternoon, EDT)
Ok200 == <<"2","0","0">>
NotFound == <<"4","0","4">>
Request(endpoint) == GET \o <<" ">> \o endpoint \o <<" ">> \o Http

\* position i holds the i-th line that a file may contain
AggLines ==
  << LogLine(<<"h">>, Day1, Request(SlashA), Ok200, <<"1","0">>),
     LogLine(<<"g">>, Day2, Request(SlashA), NotFound, <<"-">>),
     LogLine(<<"h">>, Day1, Request(SlashA), NotFound, <<"-">>),
     LogLine(<<"h">>, Day2Sep, Request(SlashB), NotFound, <<"-">>),
     LogLine(<<"g">>, Day1Sep, Request(SlashB), <<"3","0","2">>, <<"5">>),
     LogLine(<<"g">>, Day2, Request(SlashC) \o <<" ">>, NotFound, <<"-">>),
     LogLine(<<"h">>, Day1, Request(SlashC), Ok200, <<"-","5">>),
     LogLine(<<"g">>, Day1, Request(SlashB), Ok200, <<"x">>) >>

\* the files: their lines are taken in the order of AggLines, repeats allowed
AggFiles ==
  UNION { { [i \in 1..n |-> AggLines[f[i]]] :
              f \in { g \in [1..n -> 1..Len(AggLines)] :
                        \A i \in 1..n, j \in 1..n : i <= j => g[i] <= g[j] } } :
          n \in 0..MaxLines }

InitAgg ==
  /\ logFile \in AggFiles
  /\ topK \in 1..MaxK
  /\ InitNotebook

NextAgg ==
  \/ Cell1b
  \/ Cell1c
  \/ Cell2a
  \/ Cell3c
  \/ Cell3d
  \/ Cell3e
  \/ Cell3f
  \/ Cell4f
  \/ Cell4i
  \/ Cell2d
  \/ Cell3b
  \/ Cell4b
  \/ Cell2b
  \/ Cell2e
  \/ Cell3a
  \/ Cell4a
  \/ Cell4c
  \/ Cell4d
  \/ Cell4e
  \/ Cell4g
  \/ Cell4h

SpecAgg == InitAgg /\ [][NextAgg]_vars

(***************************************************************************)
(* Properties of the parser (specification Spec)                           *)
(***************************************************************************)
\* the results of the latest completed parseLogs() are bound
LogsBound == {"parsed_logs", "access_logs", "failed_logs"} \subseteq defined

RECURSIVE LastField(_)
\* the characters after the last whitespace of a line: its size field
LastField(line) ==
  IF line = << >> \/ line[Len(line)] \in Whitespace THEN << >>
  ELSE Append(LastField(SubSeq(line, 1, Len(line) - 1)), line[Len(line)])

\* C1: once parseLogs() has been run, every line has yielded exactly one of
\* (Row, 1) and (line, 0), access_logs holds exactly the Rows and failed_logs exactly
\* the failed lines, and count(access_logs) + count(failed_logs) = count(parsed_logs)
\* = number of input lines.
C1_Reconciliation ==
  pc # "1b" =>
    /\ \A c \in calls : c.result.tag \in {0, 1}
    /\ LogsBound
    /\ Len(parsed_logs) = Len(logFile)
    /\ Len(access_logs) + Len(failed_logs) = Len(parsed_logs)
    /\ \A i \in 1..Len(access_logs) :
         \E j \in 1..Len(parsed_logs) : parsed_logs[j] = ReturnRow(access_logs[i])
    /\ \A i \in 1..Len(failed_logs) :
         \E j \in 1..Len(parsed_logs) : parsed_logs[j] = ReturnLine(failed_logs[i])

\* C2: no call of parseApacheLogLine raises: every call returns (Row, 1) or (line, 0).
C2_NeverRaises == \A c \in calls : c.result.tag \in {0, 1}

\* C3: every Row has content_size >= 0, and content_size = 0 when the size field of
\* its line is '-'.
C3_SizeNormalized ==
  \A c \in calls :
    c.result.tag = 1 =>
      /\ c.result.row.content_size >= 0
      /\ LastField(c.line) = << "-" >> => c.result.row.content_size = 0

\* C4 as claimed: every Row has response_code in [100, 599].
C4_CodeInHttpRange ==
  \A c \in calls : c.result.tag = 1 => c.result.row.response_code \in 100..599

\* C4 as amended: every Row has response_code in [0, 999], the value of the three
\* digits of the status field.
C4_CodeIsThreeDigits ==
  \A c \in calls : c.result.tag = 1 => c.result.row.response_code \in 0..999

\* a Row whose response code is 999 has been returned
C4_Witness ==
  \E c \in calls : c.result.tag = 1 /\ c.result.row.response_code = 999

\* the position of the last double quote of a line: the end of its request field
ClosingQuote(line) ==
  CHOOSE i \in 1..Len(line) :
    line[i] = "\"" /\ \A j \in (i + 1)..Len(line) : line[j] # "\""

\* the position of the first double quote of a line
OpeningQuote(line) ==
  CHOOSE i \in 1..Len(line) : line[i] = "\"" /\ \A j \in 1..(i - 1) : line[j] # "\""

\* the text between the quotes
RequestField(line) == SubSeq(line, OpeningQuote(line) + 1, ClosingQuote(line) - 1)

RECURSIVE Tokens(_)
\* the whitespace-separated tokens of a text
Tokens(s) ==
  IF s = << >> THEN << >>
  ELSE IF s[1] \in Whitespace THEN Tokens(Tail(s))
  ELSE LET n == RunLen("S", s, 1, Len(s))
       IN  << SubSeq(s, 1, n) >> \o Tokens(SubSeq(s, n + 1, Len(s)))

\* no token of the request field contains a double quote
QuoteFree(line) == \A i \in 1..Len(RequestField(line)) : RequestField(line)[i] # "\""

\* the request field ends with whitespace
HasTrailingWhitespace(line) ==
  RequestField(line) # << >> /\ RequestField(line)[Len(RequestField(line))] \in Whitespace

\* the line without the whitespace that precedes its closing quote
WithoutTrailingWhitespace(line) ==
  LET q == ClosingQuote(line)
      keep == CHOOSE n \in 0..(q - 1) :
                /\ \A j \in (n + 1)..(q - 1) : line[j] \in Whitespace
                /\ n > 0 => line[n] \notin Whitespace
  IN  SubSeq(line, 1, keep) \o SubSeq(line, q, Len(line))

\* C5: for a line with whitespace before the closing quote (no quote inside the
\* request), whose text without that whitespace parses to a record under the corrected
\* pattern: under the corrected pattern the line parses to the same record; under the
\* original pattern, a protocol token being present, it is a parse failure.
C5_TrailingWhitespace ==
  \A c \in calls :
    (HasTrailingWhitespace(c.line) /\ QuoteFree(c.line)) =>
      LET base == parseApacheLogLine(CorrectedPattern, WithoutTrailingWhitespace(c.line))
      IN  /\ (c.pattern = CorrectedPattern /\ base.tag = 1) => c.result = base
          /\ (c.pattern = OriginalPattern /\ Len(Tokens(RequestField(c.line))) >= 3)
               => c.result = ReturnLine(c.line)

\* a line with a protocol and whitespace before the closing quote has been a failure
\* under the original pattern and a record under the corrected one
C5_Witness ==
  \E c1 \in calls, c2 \in calls :
    /\ c1.line = c2.line /\ HasTrailingWhitespace(c1.line)
    /\ c1.pattern = OriginalPattern /\ c1.result.tag = 0
    /\ c2.pattern = CorrectedPattern /\ c2.result.tag = 1
    /\ c2.result.row.protocol = Http

\* lines with a two-token request and otherwise acceptable fields
TwoTokenLines ==
  { LogLine(<<"h">>, t, GET \o <<" ">> \o SlashA \o tr, st, sz) :
      t \in GoodTimes, tr \in {<< >>} \cup Trailers,
      st \in { <<"2","0","0">>, <<"0","0","0">>, <<"9","9","9">> },
      sz \in { <<"1","0">>, <<"-">>, <<"-","5">> } }

\* C6: a line whose request has only a method and an endpoint (no quote inside them)
\* parses to a record with protocol '' and with method and endpoint equal to the two
\* tokens.
C6_NoProtocol ==
  \A c \in calls :
    LET tokens == Tokens(RequestField(c.line))
    IN  (Len(tokens) = 2 /\ QuoteFree(c.line)) =>
          /\ c.result.tag = 1 =>
               /\ c.result.row.protocol = << >>
               /\ c.result.row.method = tokens[1]
               /\ c.result.row.endpoint = tokens[2]
          /\ (c.line \in TwoTokenLines /\ ~HasTrailingWhitespace(c.line)) => c.result.tag = 1

\* a request of two tokens has been parsed to a record
C6_Witness ==
  \E c \in calls :
    /\ RequestField(c.line) = GET \o <<" ">> \o SlashA
    /\ c.result.tag = 1
    /\ c.result.row.endpoint = SlashA /\ c.result.row.protocol = << >>

\* C7: when the line does not match the pattern the call returns (logline, 0) with the
\* line unchanged and nothing else, and failed_logs holds lines of the file verbatim.
C7_FailureIsRawLine ==
  /\ \A c \in calls :
       ~re_search(re_compile(c.pattern), c.line).ok => c.result = [tag |-> 0, line |-> c.line]
  /\ \A c \in calls : c.result.tag = 0 => c.result.line = c.line
  /\ LogsBound =>
       \A i \in 1..Len(failed_logs) : \E j \in 1..Len(logFile) : failed_logs[i] = logFile[j]

\* a line that does not match has been returned as a failure and is in failed_logs
C7_Witness ==
  /\ LogsBound
  /\ failed_logs # << >>
  /\ \E c \in calls : c.result.tag = 0 /\ c.line = failed_logs[1]

RECURSIVE SumOfCounts(_)
SumOfCounts(pairs) ==
  IF pairs = << >> THEN 0 ELSE pairs[1][2] + SumOfCounts(Tail(pairs))

KeysOf(pairs) == { pairs[i][1] : i \in 1..Len(pairs) }

\* pairs is a group-count of a stream of n records
IsGroupCount(pairs, n) ==
  /\ \A i, j \in 1..Len(pairs) : pairs[i][1] = pairs[j][1] => i = j
  /\ \A i \in 1..Len(pairs) : pairs[i][2] >= 1
  /\ SumOfCounts(pairs) = n

\* the number of records of access_logs with a response code other than 200
NumNot200 == Cardinality({ i \in 1..Len(access_logs) : access_logs[i].response_code # 200 })

\* the number of records of access_logs with response code 404
Num404 == Cardinality({ i \in 1..Len(access_logs) : access_logs[i].response_code = 404 })

\* C9: in every group-count of the notebook the keys are unique, every count is >= 1
\* and the counts add up to the number of records of the (filtered) input stream.
C9_GroupCountTotals ==
  /\ "responseCodeToCount" \in defined => IsGroupCount(responseCodeToCount, Len(access_logs))
  /\ "endpointSum" \in defined => IsGroupCount(endpointSum, NumNot200)
  /\ "badEndpointsSum" \in defined => IsGroupCount(badEndpointsSum, Num404)
  /\ "errHostsSum" \in defined => IsGroupCount(errHostsSum, Num404)
  /\ "errDateSum" \in defined =>
       IsGroupCount(errDateSum, Num404) /\ IsGroupCount(errDateSorted, Num404)
  /\ "hourRecordsSum" \in defined =>
       IsGroupCount(hourRecordsSum, Num404) /\ IsGroupCount(hourRecordsSorted, Num404)

\* all cells have run on a file where a response code and a 404 endpoint occur more
\* than once, and where the filter on 404 drops records
C9_Witness ==
  /\ pc = "end"
  /\ Len(responseCodeToCount) >= 2
  /\ \E i \in 1..Len(responseCodeToCount) : responseCodeToCount[i][2] >= 2
  /\ \E i \in 1..Len(badEndpointsSum) : badEndpointsSum[i][2] >= 2
  /\ 0 < Num404 /\ Num404 < Len(access_logs)

\* top is a top-k list of the group-count pairs
IsTopK(top, pairs, k) ==
  /\ \A i \in 1..Len(top) : \E j \in 1..Len(pairs) : top[i] = pairs[j]
  /\ Len(top) = Min(k, Cardinality(KeysOf(pairs)))
  /\ \A i, j \in 1..Len(top) : top[i][1] = top[j][1] => i = j
  /\ \A i \in 1..Len(top), j \in 1..Len(pairs) :
       pairs[j][1] \notin KeysOf(top) => top[i][2] >= pairs[j][2]

\* C10: every top-k list is a subset of its group-count, has min(k, number of distinct
\* keys) elements, repeats no key, and holds counts >= the count of every key left out.
C10_TopKSubset ==
  /\ "topEndpoints" \in defined => IsTopK(topEndpoints, endpointCounts, topK)
  /\ "topTenErrURLs" \in defined => IsTopK(topTenErrURLs, endpointSum, topK)
  /\ "badEndpointsTop20" \in defined => IsTopK(badEndpointsTop20, badEndpointsSum, topK)
  /\ "errHostsTop25" \in defined => IsTopK(errHostsTop25, errHostsSum, topK)
  /\ "topErrDate" \in defined => IsTopK(topErrDate, errDateSorted, topK)

\* a top-k list has left out a key with a smaller count, and another one a key with
\* an equal count
C10_Witness ==
  /\ pc = "end"
  /\ Len(topEndpoints) < Len(endpointCounts)
  /\ \E j \in 1..Len(endpointCounts) :
       /\ endpointCounts[j][1] \notin KeysOf(topEndpoints)
       /\ endpointCounts[j][2] < topEndpoints[Len(topEndpoints)][2]
  /\ Len(topErrDate) < Len(errDateSorted)
  /\ \E j \in 1..Len(errDateSorted) :
       /\ errDateSorted[j][1] \notin KeysOf(topErrDate)
       /\ errDateSorted[j][2] = topErrDate[Len(topErrDate)][2]

\* the counts do not increase along top, and its first count is the largest of pairs
IsSortedTop(top, pairs) ==
  /\ \A i \in 1..(Len(top) - 1) : top[i][2] >= top[i + 1][2]
  /\ pairs # << >> =>
       /\ top # << >>
       /\ \A j \in 1..Len(pairs) : top[1][2] >= pairs[j][2]

IsOnlyTopK(top, pairs, k) == \A o \in PartitionOrders(pairs) : nsmallest(k, o, NegCount) = top

\* C12: top-k is deterministic under ties: evaluations that differ only in the
\* partitioning or iteration order of the group-count pairs return the same ordered
\* sequence of (key, count), the k-th place among tied keys going to the same key.
C12_TieDeterminism ==
  /\ "topEndpoints" \in defined => IsOnlyTopK(topEndpoints, endpointCounts, topK)
  /\ "topTenErrURLs" \in defined => IsOnlyTopK(topTenErrURLs, endpointSum, topK)
  /\ "badEndpointsTop20" \in defined => IsOnlyTopK(badEndpointsTop20, badEndpointsSum, topK)
  /\ "errHostsTop25" \in defined => IsOnlyTopK(errHostsTop25, errHostsSum, topK)
  /\ "topErrDate" \in defined =>
       \A o \in PartitionOrders(errDateSum) :
         nsmallest(topK, sortByKey(o), NegCount) = topErrDate

Max(a, b) == IF a > b THEN a ELSE b
Plus(a, b) == a + b

\* two partial results merged with the reducer op; a piece without records has none
MergePartial(op(_, _), a, b) ==
  IF ~a.ok THEN b ELSE IF ~b.ok THEN a ELSE Value(op(a.val, b.val))

\* the pairs of a group-count as a mapping, whatever their order
AsMapping(pairs) == { pairs[i] : i \in 1..Len(pairs) }

CodeCounts(records) == reduceByKey(MapToPairWithOne(records, response_code_of))

\* the results of the reducers over the pieces a and b, merged, are those of cell (2a)
\* and (2b) over the whole of access_logs
MergesToWhole(a, b) ==
  LET sa == Map(a, content_size_of)
      sb == Map(b, content_size_of)
  IN  /\ count(sa) + count(sb) = count(content_sizes)
      /\ MergePartial(Plus, reduceAdd(sa), reduceAdd(sb)) = reduceAdd(content_sizes)
      /\ MergePartial(Min, rddMin(sa), rddMin(sb)) = rddMin(content_sizes)
      /\ MergePartial(Max, rddMax(sa), rddMax(sb)) = rddMax(content_sizes)
      /\ AsMapping(reduceByKey(CodeCounts(a) \o CodeCounts(b))) = AsMapping(responseCodeToCount)

\* C13: for the reducers of the notebook (count, a + b per key, a + b over the sizes,
\* min, max): the records split in two at any point, each piece aggregated and the two
\* partial results merged with the same reducer, give the result over the whole, in
\* whatever order the records come and whichever piece is merged first.
C13_MergeAssociativity ==
  ({"content_sizes", "responseCodeToCount"} \subseteq defined) =>
    \A o \in PartitionOrders(access_logs) :
      \A n \in 0..Len(o) :
        /\ MergesToWhole(SubSeq(o, 1, n), SubSeq(o, n + 1, Len(o)))
        /\ MergesToWhole(SubSeq(o, n + 1, Len(o)), SubSeq(o, 1, n))

\* the statistics are printed for three records or more, of which the first has not
\* the smallest size nor the last the largest, and a response code occurs twice
C13_Witness ==
  /\ pc = "end"
  /\ Len(content_sizes) >= 3
  /\ contentSizeStats # << >>
  /\ content_sizes[1] # contentSizeStats[1].min
  /\ content_sizes[Len(content_sizes)] # contentSizeStats[1].max
  /\ \E i \in 1..Len(responseCodeToCount) : responseCodeToCount[i][2] >= 2

\* the pairs at the positions of the set I, in their order
PartOf(pairs, I) ==
  [j \in 1..Cardinality(I) |->
     pairs[CHOOSE i \in I : Cardinality({ x \in I : x <= i }) = j]]

CountsOf(pairs) == [i \in 1..Len(pairs) |-> pairs[i][2]]

\* the merge of takeOrdered: the candidates of two parts put together and k re-selected
MergeTopK(a, b, k) == nsmallest(k, a \o b, NegCount)

\* merged and top hold the same counts in the same order and the same keys, except
\* that keys whose count is that of the last place may stand for one another
SameUpToTies(merged, top, pairs) ==
  /\ CountsOf(merged) = CountsOf(top)
  /\ AsMapping(merged) \subseteq AsMapping(pairs)
  /\ Cardinality(KeysOf(merged)) = Len(merged)
  /\ \A i \in 1..Len(top) :
       top[i][2] > top[Len(top)][2] => top[i] \in AsMapping(merged)

\* top is what the top-k of any two key-disjoint parts of pairs merge to
ComposesOverParts(top, pairs, k) ==
  \A I \in SUBSET (1..Len(pairs)) :
    LET a == PartOf(pairs, I)
        b == PartOf(pairs, (1..Len(pairs)) \ I)
    IN  SameUpToTies(MergeTopK(nsmallest(k, a, NegCount), nsmallest(k, b, NegCount), k),
                     top, pairs)

\* C14: top-k composes over partitions: for a group-count split into two key-disjoint
\* parts and any k >= 1, the top-k of each part, merged and re-selected, has the same
\* sequence of counts as the top-k of the whole, and the same keys up to the order of
\* equal counts.
C14_TopKComposes ==
  /\ "topEndpoints" \in defined => ComposesOverParts(topEndpoints, endpointCounts, topK)
  /\ "topTenErrURLs" \in defined => ComposesOverParts(topTenErrURLs, endpointSum, topK)
  /\ "badEndpointsTop20" \in defined =>
       ComposesOverParts(badEndpointsTop20, badEndpointsSum, topK)
  /\ "errHostsTop25" \in defined => ComposesOverParts(errHostsTop25, errHostsSum, topK)
  /\ "topErrDate" \in defined => ComposesOverParts(topErrDate, errDateSorted, topK)

\* a top-k list leaves out a key, and the key with the largest count is not the one
\* the group-count lists first: the candidate of a part is displaced in the merge
C14_Witness ==
  /\ pc = "end"
  /\ topEndpoints # << >>
  /\ Len(topEndpoints) < Len(endpointCounts)
  /\ endpointCounts[1][2] < topEndpoints[1][2]

\* C16: the content-size minimum, maximum and mean over zero records are signalled:
\* cell (2a) ends with the error of reducing an empty RDD and prints no statistic, so
\* that no 0 or other value can be read as one.
C16_EmptyInputSignalled ==
  ("content_sizes" \in defined /\ content_sizes = << >>) =>
    /\ contentSizeStats = << >>
    /\ pc = "2b" => exc = "ValueError"

\* cell (2a) has just run over an access_logs without records
C16_Witness ==
  /\ pc = "2b"
  /\ {"access_logs", "content_sizes"} \subseteq defined
  /\ access_logs = << >>
  /\ exc = "ValueError"

RECURSIVE SumOfSizes(_)
\* the exact sum of content_size over the records
SumOfSizes(records) ==
  IF records = << >> THEN 0 ELSE records[1].content_size + SumOfSizes(Tail(records))

\* C17: for a non-empty access_logs the average that cell (2a) reports is the integer
\* floor(sum of content_size / number of records), from the exact sum and count.
C17_FlooredMean ==
  ("content_sizes" \in defined /\ access_logs # << >>) =>
    /\ Len(contentSizeStats) = 1
    /\ LET avg == contentSizeStats[1].avg
           n   == Len(access_logs)
       IN  /\ avg * n <= SumOfSizes(access_logs)
           /\ SumOfSizes(access_logs) < (avg + 1) * n

\* an average has been reported for sizes whose sum is negative and is not a multiple
\* of their number: the floor is not the quotient with its fraction dropped
C17_Witness ==
  /\ Len(contentSizeStats) = 1
  /\ SumOfSizes(access_logs) < 0
  /\ SumOfSizes(access_logs) % Len(access_logs) # 0
  /\ contentSizeStats[1].avg * Len(access_logs) < SumOfSizes(access_logs)

\* the days (of the month) that occur in the records
DaysOf(records) == { records[i].date_time.day : i \in 1..Len(records) }

\* the records of day d
RecordsOn(records, d) == { i \in 1..Len(records) : records[i].date_time.day = d }

\* the distinct hosts of the records of day d
HostsOn(records, d) == { records[i].host : i \in RecordsOn(records, d) }

\* pairs holds one pair for every day of the set days, and no other
OnePairPerDay(pairs, days) ==
  /\ KeysOf(pairs) = days
  /\ Len(pairs) = Cardinality(days)

\* C18: for every day d that occurs in access_logs, dailyHosts holds exactly one pair
\* (d, n), n being the exact number of distinct hosts among the records of day d; a day
\* without a record does not appear.
C18_DailyUniqueHosts ==
  "dailyHosts" \in defined =>
    /\ OnePairPerDay(dailyHosts, DaysOf(access_logs))
    /\ \A i \in 1..Len(dailyHosts) :
         dailyHosts[i][2] = Cardinality(HostsOn(access_logs, dailyHosts[i][1]))

\* a host has made two requests on one day and a request on another day, and is counted
\* once on each
C18_Witness ==
  /\ pc = "end"
  /\ Len(dailyHosts) = 2
  /\ \E h \in HostsOn(access_logs, dailyHosts[1][1]) \cap HostsOn(access_logs, dailyHosts[2][1]) :
       \E i, j \in RecordsOn(access_logs, dailyHosts[1][1]) :
         i # j /\ access_logs[i].host = h /\ access_logs[j].host = h
  /\ dailyHosts[1][2] = 1 /\ dailyHosts[2][2] = 1

\* C19: for every day d that occurs in access_logs, avgDailyReqPerHost holds exactly
\* one pair (d, floor(requests of day d / unique hosts of day d)), and no other day.
C19_AvgDailyReqPerHost ==
  "avgDailyReqPerHost" \in defined =>
    /\ OnePairPerDay(avgDailyReqPerHost, DaysOf(access_logs))
    /\ \A i \in 1..Len(avgDailyReqPerHost) :
         LET d        == avgDailyReqPerHost[i][1]
             v        == avgDailyReqPerHost[i][2]
             requests == Cardinality(RecordsOn(access_logs, d))
             unique   == Cardinality(HostsOn(access_logs, d))
         IN  v * unique <= requests /\ requests < (v + 1) * unique

\* a day of three requests by two hosts has the average 1
C19_Witness ==
  /\ pc = "end"
  /\ \E i \in 1..Len(avgDailyReqPerHost) :
       /\ Cardinality(RecordsOn(access_logs, avgDailyReqPerHost[i][1])) = 3
       /\ Cardinality(HostsOn(access_logs, avgDailyReqPerHost[i][1])) = 2
       /\ avgDailyReqPerHost[i][2] = 1

\* the bucket keys of pairs increase strictly
IsAscending(pairs) == \A i \in 1..(Len(pairs) - 1) : pairs[i][1] < pairs[i + 1][1]

\* keys and values are the keys and the values of pairs, position by position
IsAligned(pairs, keys, values) ==
  /\ Len(keys) = Len(pairs) /\ Len(values) = Len(pairs)
  /\ \A i \in 1..Len(pairs) : pairs[i] = << keys[i], values[i] >>

\* C20: dailyHosts, avgDailyReqPerHost, errDateSorted and hourRecordsSorted are
\* sequences of (bucket, value) pairs with strictly increasing bucket keys, and the key
\* list and the value list collected from each are index-aligned with it.
C20_SortedBuckets ==
  /\ "dailyHosts" \in defined => IsAscending(dailyHosts)
  /\ "avgDailyReqPerHost" \in defined => IsAscending(avgDailyReqPerHost)
  /\ "errDateSorted" \in defined => IsAscending(errDateSorted)
  /\ "hourRecordsSorted" \in defined => IsAscending(hourRecordsSorted)
  /\ "daysWithHosts" \in defined => IsAligned(dailyHosts, daysWithHosts, hosts)
  /\ "daysWithAvg" \in defined => IsAligned(avgDailyReqPerHost, daysWithAvg, avgs)
  /\ "daysWithErrors404" \in defined =>
       IsAligned(errDateSorted, daysWithErrors404, errors404ByDay)
  /\ "hoursWithErrors404" \in defined =>
       IsAligned(hourRecordsSorted, hoursWithErrors404, errors404ByHours)

\* all cells have run on a file whose first record, and whose first 404 record, is of
\* the later day and hour: the four series have two buckets that the sort has reordered
C20_Witness ==
  /\ pc = "end"
  /\ Len(dailyHosts) = 2 /\ access_logs[1].date_time.day = dailyHosts[2][1]
  /\ Len(avgs) = 2 /\ Len(daysWithHosts) = 2
  /\ Len(errDateSorted) = 2 /\ errDateSum # errDateSorted
  /\ Len(hoursWithErrors404) = 2 /\ hourRecordsSum # hourRecordsSorted
  /\ errors404ByDay[1] # errors404ByDay[2]

\* the records of access_logs that satisfy both the endpoint and the code predicate
ErrorsOf(endpoint) ==
  { i \in 1..Len(access_logs) :
      access_logs[i].endpoint = endpoint /\ access_logs[i].response_code # 200 }

\* C21: badRecords holds exactly the records of access_logs with response code 404;
\* the count of every endpoint of endpointSum is the number of records of access_logs
\* with that endpoint and a code other than 200, and an endpoint that only ever
\* returned 200 is absent from endpointSum.
C21_FilteredAggregations ==
  /\ "badRecords" \in defined =>
       badRecords = SelectSeq(access_logs, LAMBDA log : log.response_code = 404)
  /\ "endpointSum" \in defined =>
       /\ \A i \in 1..Len(endpointSum) :
            endpointSum[i][2] = Cardinality(ErrorsOf(endpointSum[i][1]))
       /\ \A i \in 1..Len(access_logs) :
            access_logs[i].endpoint \in KeysOf(endpointSum)
              <=> ErrorsOf(access_logs[i].endpoint) # {}

\* all cells have run on a file where an endpoint has returned 200 only and another
\* one 200 and 404
C21_Witness ==
  /\ pc = "end"
  /\ \E i \in 1..Len(access_logs) : access_logs[i].endpoint \notin KeysOf(endpointSum)
  /\ \E i, j \in 1..Len(access_logs) :
       /\ access_logs[i].endpoint = access_logs[j].endpoint
       /\ access_logs[i].response_code = 200 /\ access_logs[j].response_code = 404
  /\ badRecords # << >> /\ Len(badRecords) < Len(access_logs)

(***************************************************************************)
(* C22: the number of unique hosts                                         *)
(***************************************************************************)

HostsOf(rdd) == { rdd[i].host : i \in 1..Len(rdd) }

\* C22: uniqueHostCount is the number of distinct hosts of access_logs, which is the
\* number of keys of hostSum, and it is 0 only when access_logs is empty
C22_UniqueHostCount ==
  "uniqueHostCount" \in defined =>
    /\ uniqueHostCount = Cardinality(HostsOf(access_logs))
    /\ "hostSum" \in defined => uniqueHostCount = Len(hostSum)
    /\ uniqueHostCount = 0 <=> access_logs = << >>

\* three records of two hosts have been counted
C22_Witness ==
  /\ pc = "end"
  /\ {"uniqueHostCount", "hostSum"} \subseteq defined
  /\ Len(access_logs) = 3
  /\ uniqueHostCount = 2

(***************************************************************************)
(* C23: the key of the per-day buckets                                     *)
(***************************************************************************)

DateOf(log) == << log.date_time.year, log.date_time.month, log.date_time.day >>

DatesOf(records) == { DateOf(records[i]) : i \in 1..Len(records) }

\* the records of the calendar date D
RecordsOnDate(records, D) == { i \in 1..Len(records) : DateOf(records[i]) = D }

HostsOnDate(records, D) == { records[i].host : i \in RecordsOnDate(records, D) }

PairsOf(pairs) == { pairs[i] : i \in 1..Len(pairs) }

\* C23 as stated: the records counted in one day bucket have one calendar date (year,
\* month and day), so that a bucket of dailyHosts counts no more hosts, and a bucket of
\* errDateSorted no more records, than one calendar date has.
C23_CalendarDayBuckets ==
  /\ "dailyHosts" \in defined =>
       \A i \in 1..Len(dailyHosts) :
         \E D \in DatesOf(access_logs) :
           /\ D[3] = dailyHosts[i][1]
           /\ dailyHosts[i][2] <= Cardinality(HostsOnDate(access_logs, D))
  /\ "errDateSorted" \in defined =>
       \A i \in 1..Len(errDateSorted) :
         \E D \in DatesOf(badRecords) :
           /\ D[3] = errDateSorted[i][1]
           /\ errDateSorted[i][2] <= Cardinality(RecordsOnDate(badRecords, D))

\* C23, amended: two records are counted in the same day bucket exactly when their
\* timestamps have the same day of the month, whatever the month and the year: each of
\* dailyHosts, avgDailyReqPerHost and errDateSorted has one bucket for every day of the
\* month that occurs, and the bucket counts all the records of that day of the month.
C23_DayOfMonthBuckets ==
  /\ "dailyHosts" \in defined =>
       \A d \in DaysOf(access_logs) :
         /\ << d, Cardinality(HostsOn(access_logs, d)) >> \in PairsOf(dailyHosts)
         /\ Len(dailyHosts) = Cardinality(DaysOf(access_logs))
  /\ "avgDailyReqPerHost" \in defined =>
       \A d \in DaysOf(access_logs) :
         /\ << d, IntDiv(Cardinality(RecordsOn(access_logs, d)),
                         Cardinality(HostsOn(access_logs, d))) >>
              \in PairsOf(avgDailyReqPerHost)
         /\ Len(avgDailyReqPerHost) = Cardinality(DaysOf(access_logs))
  /\ "errDateSorted" \in defined =>
       \A d \in DaysOf(badRecords) :
         /\ << d, Cardinality(RecordsOn(badRecords, d)) >> \in PairsOf(errDateSorted)
         /\ Len(errDateSorted) = Cardinality(DaysOf(badRecords))

\* two 404 records of two hosts, of the same day of two months, share the one bucket
C23_Witness ==
  /\ pc = "end"
  /\ {"dailyHosts", "avgDailyReqPerHost", "errDateSorted"} \subseteq defined
  /\ \E i, j \in 1..Len(badRecords) :
       /\ badRecords[i].date_time.day = badRecords[j].date_time.day
       /\ badRecords[i].date_time.month # badRecords[j].date_time.month
       /\ badRecords[i].host # badRecords[j].host
  /\ Len(errDateSorted) = 1 /\ errDateSorted[1][2] = 2
  /\ Len(dailyHosts) = 1 /\ dailyHosts[1][2] = 2

(***************************************************************************)
(* C24: the fields of date_time (specification Spec)                       *)
(***************************************************************************)

\* the text between the brackets of a line
Timestamp(line) ==
  LET open  == CHOOSE i \in 1..Len(line) : line[i] = "[" /\ \A j \in 1..(i - 1) : line[j] # "["
      close == CHOOSE i \in 1..Len(line) : line[i] = "]" /\ \A j \in 1..(i - 1) : line[j] # "]"
  IN  SubSeq(line, open + 1, close - 1)

TimeSeparators == {"/", ":", " "}

RECURSIVE Components(_)
\* the components of a timestamp: the texts that '/', ':' and the blank separate
Components(s) ==
  IF s = << >> THEN << << >> >>
  ELSE LET rest == Components(Tail(s))
       IN  IF s[1] \in TimeSeparators THEN << << >> >> \o rest
           ELSE << << s[1] >> \o rest[1] >> \o Tail(rest)

\* the line with the offset of its timestamp replaced
WithOffset(line, off) ==
  LET close == CHOOSE i \in 1..Len(line) : line[i] = "]" /\ \A j \in 1..(i - 1) : line[j] # "]"
  IN  SubSeq(line, 1, close - 6) \o off \o SubSeq(line, close, Len(line))

\* the date_time that the components of the timestamp of a line denote
ComponentsDenote(line, dt) ==
  LET f == Components(Timestamp(line))
  IN  /\ Len(f) = 7
      /\ \A i \in {1, 3, 4, 5, 6} : AllDigits(f[i])
      /\ f[2] \in DOMAIN month_map
      /\ dt = [year |-> DecimalValue(f[3]), month |-> month_map[f[2]],
               day |-> DecimalValue(f[1]), hour |-> DecimalValue(f[4]),
               minute |-> DecimalValue(f[5]), second |-> DecimalValue(f[6])]

\* C24: every line that matches the pattern yields a record whose date_time has the
\* year, month (Jan..Dec as 1..12), day, hour, minute and second that the components of
\* the bracketed timestamp denote, and the same line with another offset yields an equal
\* date_time: the offset is not applied.
C24_DateTimeFromTimestamp ==
  \A c \in calls :
    re_search(re_compile(c.pattern), c.line).ok =>
      /\ c.result.tag = 1
      /\ ComponentsDenote(c.line, c.result.row.date_time)
      /\ \A off \in {EDT, UTC} :
           LET other == parseApacheLogLine(c.pattern, WithOffset(c.line, off))
           IN  other.tag = 1 /\ other.row.date_time = c.result.row.date_time

\* C24 for the records alone: a record has the date_time that the components of its
\* timestamp denote
C24_RecordsFromTimestamp ==
  \A c \in calls : c.result.tag = 1 => ComponentsDenote(c.line, c.result.row.date_time)

\* the offset is not applied: a record and the record of the same line with another
\* offset have equal date_time values
C24_OffsetNotApplied ==
  \A c \in calls :
    c.result.tag = 1 =>
      \A off \in {EDT, UTC} :
        LET other == parseApacheLogLine(c.pattern, WithOffset(c.line, off))
        IN  other.tag = 1 /\ other.row.date_time = c.result.row.date_time

(***************************************************************************)
(* C25: what parseLogs() prints and returns (specification Spec)           *)
(***************************************************************************)

\* the report of the latest run agrees with the three collections it has returned
ReportAgrees ==
  /\ printed.summary = << Len(parsed_logs), Len(access_logs), Len(failed_logs) >>
  /\ printed.invalid_count # << >> <=> Len(failed_logs) > 0
  /\ printed.invalid_count # << >> => printed.invalid_count = << Len(failed_logs) >>
  /\ Len(printed.invalid_lines) = Min(20, Len(failed_logs))
  /\ \A i \in 1..Len(printed.invalid_lines) :
       \E j \in 1..Len(failed_logs) : printed.invalid_lines[i] = failed_logs[j]

\* C25: every run of parseLogs() returns the three collections and prints the numbers
\* of lines read, parsed and failed, whatever the input; the report of invalid lines is
\* printed only when there are failures, and holds min(20, number of failures) lines,
\* each of them a raw failed line.
C25_ReportsWithoutAborting ==
  pc # "1b" => (exc = "" /\ LogsBound /\ ReportAgrees)

\* C25 for the runs that return: the report agrees with the collections returned
C25_ReportOfReturnedRun ==
  (pc # "1b" /\ exc = "") => (LogsBound /\ ReportAgrees)

(***************************************************************************)
(* C26: the endpoints of the 404 records (specification SpecAgg)           *)
(***************************************************************************)

\* the endpoints of the records of access_logs whose response code is 404
Endpoints404 ==
  { access_logs[i].endpoint : i \in { j \in 1..Len(access_logs) :
                                         access_logs[j].response_code = 404 } }

\* C26: badUniqueEndpointsPick40 has exactly min(k, number of distinct endpoints among
\* the 404 records) elements, k being the number asked of take (40 in the notebook), no
\* endpoint occurs in it twice, and each element is the endpoint of a 404 record.
C26_UniqueEndpointsPick ==
  "badUniqueEndpointsPick40" \in defined =>
    /\ Len(badUniqueEndpointsPick40) = Min(topK, Cardinality(Endpoints404))
    /\ \A i, j \in 1..Len(badUniqueEndpointsPick40) :
         badUniqueEndpointsPick40[i] = badUniqueEndpointsPick40[j] => i = j
    /\ \A i \in 1..Len(badUniqueEndpointsPick40) :
         badUniqueEndpointsPick40[i] \in Endpoints404

\* the 404 records repeat an endpoint and have more distinct endpoints than are asked
C26_Witness ==
  /\ pc = "end"
  /\ "badUniqueEndpointsPick40" \in defined
  /\ Len(badRecords) > Cardinality(Endpoints404)
  /\ Cardinality(Endpoints404) > topK
  /\ Len(badUniqueEndpointsPick40) = topK

(***************************************************************************)
(* C27: requests of four tokens or more (specification Spec)               *)
(***************************************************************************)

LatestRun == MapParse(APACHE_ACCESS_LOG_PATTERN, logFile)

\* C28: once parseLogs() has been run, the three bound collections come from one run,
\* and that run is the most recent one: the cells that follow read the access_logs of
\* the latest run, made under the current value of the pattern.
C28_LogsOfLatestRun ==
  (pc # "1b" /\ LogsBound) =>
    /\ parsed_logs = LatestRun
    /\ access_logs = RowsOf(LatestRun)
    /\ failed_logs = FailuresOf(LatestRun)

\* C28, its first half: the three names are bound together, to the results of one run
\* under one value of the pattern
C28_BoundTogether ==
  /\ LogsBound \/ defined \cap {"parsed_logs", "access_logs", "failed_logs"} = {}
  /\ LogsBound =>
       \E pat \in {OriginalPattern, CorrectedPattern} :
         /\ parsed_logs = MapParse(pat, logFile)
         /\ access_logs = RowsOf(parsed_logs)
         /\ failed_logs = FailuresOf(parsed_logs)

(***************************************************************************)
(* C29: the order of the content-size statistics (specification SpecAgg)   *)
(***************************************************************************)

\* C29: for a non-empty access_logs the statistics that cell (2a) reports satisfy
\* min <= avg <= max, avg being the integer mean that the notebook prints.
C29_MeanBetweenExtremes ==
  ("content_sizes" \in defined /\ access_logs # << >>) =>
    /\ Len(contentSizeStats) = 1
    /\ contentSizeStats[1].min <= contentSizeStats[1].avg
    /\ contentSizeStats[1].avg <= contentSizeStats[1].max

\* the statistics of three records whose mean lies strictly between the extremes, the
\* largest size not being the last one
C29_Witness ==
  /\ pc = "end"
  /\ Len(access_logs) = 3
  /\ Len(contentSizeStats) = 1
  /\ contentSizeStats[1].min < contentSizeStats[1].avg
  /\ contentSizeStats[1].avg < contentSizeStats[1].max
  /\ access_logs[3].content_size < contentSizeStats[1].max

(***************************************************************************)
(* C30: the join of the per-day average (specification SpecAgg)            *)
(***************************************************************************)

\* the value that pairs holds for key k
ValueOf(pairs, k) == pairs[IndexOfKey(pairs, k)][2]

\* C30: in cell (3e) the per-day request counts and dailyHosts have the same day keys
\* and the join keeps each of them once; for every day the number of unique hosts is at
\* least 1 and at most the number of requests, so that no division is by zero and every
\* average is at least 1.
C30_JoinKeepsEveryDay ==
  "avgDailyReqPerHost" \in defined =>
    LET dayCounts == reduceByKey(MapToPairWithOne(access_logs, day_of))
    IN  /\ KeysOf(dayCounts) = KeysOf(dailyHosts)
        /\ Len(dayCounts) = Len(dailyHosts)
        /\ KeysOf(avgDailyReqPerHost) = KeysOf(dailyHosts)
        /\ Len(avgDailyReqPerHost) = Len(dailyHosts)
        /\ \A i \in 1..Len(dailyHosts) :
             /\ dailyHosts[i][2] >= 1
             /\ dailyHosts[i][2] <= ValueOf(dayCounts, dailyHosts[i][1])
        /\ \A i \in 1..Len(avgDailyReqPerHost) : avgDailyReqPerHost[i][2] >= 1

\* two days, met in the file with the later day first; one has more requests than
\* hosts, the other has two hosts
C30_Witness ==
  /\ pc = "end"
  /\ "avgDailyReqPerHost" \in defined
  /\ Len(avgDailyReqPerHost) = 2
  /\ access_logs[1].date_time.day = avgDailyReqPerHost[2][1]
  /\ \E i \in 1..2 : dailyHosts[i][2] = 2

====
